---- MODULE Spec2Model ----
(***************************************************************************)
(* Model of the SSID core (cyphernet-labs/ssid): the identity certificate  *)
(* chain (identity.rs), the Ristretto key newtypes (algo/ristretto25519.rs)*)
(* and the Bindle container with its armored-text and binary encodings     *)
(* (bindle.rs).                                                            *)
(*                                                                         *)
(* Bytes are integers 0..255, texts are sequences of ASCII codes.  The     *)
(* external crates (strict_encoding, base85, baid58, ec25519, sha2) are    *)
(* modelled by computable codecs with the same failure modes; byte widths  *)
(* of keys are scaled down by PkLen so that TLC can enumerate the texts.   *)
(***************************************************************************)
EXTENDS Integers, Sequences, FiniteSets, TLC

(***************************************************************************)
(* Bounds of the model.                                                    *)
(***************************************************************************)
\* width in bytes of a public key, a digest and a txid (32 in the build);
\* secret keys and signatures are twice as wide, as in the build (64)
PkLen == 11
\* number of distinct key seeds / noise values / funding transactions
NumSeeds == 2
\* longest revocation chain explored (SmallVec allows 65535)
MaxRevocations == 2
\* size confinement of a serialized content, scaled down from 2^24 - 1
U24 == 160
\* the most signers attached to one bindle
MaxSigs == 2

(***************************************************************************)
(* Program constants.                                                      *)
(***************************************************************************)
\* RistrettoPk::ID, the algorithm tag
ID == 1
\* hard wrap of the Base85 payload
LineWidth == 64
\* bytes of the key that make the fingerprint
FingerprintLen == 4
\* magic length
MagicLen == 4

SkLen == 2 * PkLen
SigLen == 2 * PkLen
DigestLen == PkLen
TxidLen == PkLen
Seeds == 1..NumSeeds

NL == <<10>>
CR == <<13>>
SP == <<32>>
COLON == <<58>>
HASH == <<35>>
BEGIN_ == <<45, 45, 45, 45, 45, 66, 69, 71, 73, 78, 32>>
END_ == <<45, 45, 45, 45, 45, 69, 78, 68, 32>>
DASHES == <<45, 45, 45, 45, 45>>
ID_PREFIX == <<73, 100, 58, 32>>
SIGNED_BY == <<83, 105, 103, 110, 101, 100, 45, 66, 121, 58, 32>>
HRI == <<115, 115, 105>>
TITLE_SK == <<83, 83, 73, 68, 32, 83, 69, 67, 82, 69, 84, 32, 75, 69, 89>>
TITLE_CERT == <<83, 83, 73, 68, 32, 73, 68, 69, 78, 84, 73, 84, 89, 32, 67, 69, 82,
                84, 73, 70, 73, 67, 65, 84, 69>>
MAGIC_SK == <<83, 83, 83, 75>>
MAGIC_CERT == <<83, 83, 73, 68>>

ContentTypes == {"sk", "cert"}
PLATE_TITLE(ty) == IF ty = "sk" THEN TITLE_SK ELSE TITLE_CERT
MAGIC(ty) == IF ty = "sk" THEN MAGIC_SK ELSE MAGIC_CERT

(***************************************************************************)
(* Sequence helpers.                                                       *)
(***************************************************************************)
Take(s, n) == SubSeq(s, 1, IF n < Len(s) THEN n ELSE Len(s))
Drop(s, n) == SubSeq(s, n + 1, Len(s))
HasPrefix(s, p) == Len(s) >= Len(p) /\ SubSeq(s, 1, Len(p)) = p

\* concatenation and sum of the items of a sequence, by halves
RECURSIVE Flatten(_)
Flatten(ss) ==
    IF ss = <<>> THEN <<>>
    ELSE IF Len(ss) = 1 THEN ss[1]
    ELSE LET h == Len(ss) \div 2
         IN  Flatten(SubSeq(ss, 1, h)) \o Flatten(SubSeq(ss, h + 1, Len(ss)))

RECURSIVE SumSeq(_)
SumSeq(s) ==
    IF s = <<>> THEN 0
    ELSE IF Len(s) = 1 THEN s[1]
    ELSE LET h == Len(s) \div 2
         IN  SumSeq(SubSeq(s, 1, h)) + SumSeq(SubSeq(s, h + 1, Len(s)))

\* little-endian encoding of n on w bytes
LE(n, w) == [i \in 1..w |-> (n \div (256 ^ (i - 1))) % 256]

\* Option<T>: <<>> is None, <<x>> is Some(x)
None == <<>>
Some(x) == <<x>>

(***************************************************************************)
(* base85 crate: 4 bytes <-> 5 digits of the RFC 1924 alphabet; a final    *)
(* group of n < 4 bytes <-> n + 1 digits.  A 32-bit group is kept as the   *)
(* pair <<high 16 bits, low 16 bits>>.                                     *)
(***************************************************************************)
B85_ALPHABET == <<48, 49, 50, 51, 52, 53, 54, 55, 56, 57, 65, 66, 67, 68, 69, 70, 71,
    72, 73, 74, 75, 76, 77, 78, 79, 80, 81, 82, 83, 84, 85, 86, 87, 88, 89, 90, 97,
    98, 99, 100, 101, 102, 103, 104, 105, 106, 107, 108, 109, 110, 111, 112, 113,
    114, 115, 116, 117, 118, 119, 120, 121, 122, 33, 35, 36, 37, 38, 40, 41, 42, 43,
    45, 59, 60, 61, 62, 63, 64, 94, 95, 96, 123, 124, 125, 126>>
B85Chars == {B85_ALPHABET[i] : i \in 1..Len(B85_ALPHABET)}
B85Digit(c) == (CHOOSE i \in 1..Len(B85_ALPHABET) : B85_ALPHABET[i] = c) - 1

\* <<quotient pair, remainder>> of a 32-bit pair divided by 85
DivMod85(n) ==
    LET t == (n[1] % 85) * 65536 + n[2]
    IN  << <<n[1] \div 85, t \div 85>>, t % 85 >>

\* the five base-85 digits of a 32-bit pair, most significant first
Group85(n) ==
    LET a == DivMod85(n)
        b == DivMod85(a[1])
        c == DivMod85(b[1])
        d == DivMod85(c[1])
        e == DivMod85(d[1])
    IN  <<e[2], d[2], c[2], b[2], a[2]>>

\* the digits of a byte string: one group of five per chunk of four bytes, and
\* n + 1 digits for a final chunk of n < 4 bytes (padded with zero bytes)
B85EncodeDigits(bs) ==
    LET full == Len(bs) \div 4
        rest == Len(bs) % 4
        Byte(i) == IF i <= Len(bs) THEN bs[i] ELSE 0
        Chunk(g) ==
            Group85(<<Byte(4 * g - 3) * 256 + Byte(4 * g - 2),
                      Byte(4 * g - 1) * 256 + Byte(4 * g)>>)
        groups == [g \in 1..(full + (IF rest = 0 THEN 0 ELSE 1)) |-> Chunk(g)]
    IN  [k \in 1..(5 * full + (IF rest = 0 THEN 0 ELSE rest + 1)) |->
            groups[((k - 1) \div 5) + 1][((k - 1) % 5) + 1]]

\* base85::encode
B85Encode(bs) ==
    LET ds == B85EncodeDigits(bs) IN [i \in 1..Len(ds) |-> B85_ALPHABET[ds[i] + 1]]

\* value of five digits as <<high, low>>; high >= 65536 is a 32-bit overflow
RECURSIVE Acc85(_, _)
Acc85(ds, acc) ==
    IF ds = <<>> THEN acc
    ELSE LET lo == acc[2] * 85 + Head(ds)
         IN  Acc85(Tail(ds), <<acc[1] * 85 + (lo \div 65536), lo % 65536>>)

\* the bytes of a digit string: four per group of five digits, and n - 1 bytes
\* for a final group of n < 5 digits (padded with the highest digit); a final
\* group of one digit and a group above 32 bits are errors
B85DecodeDigits(ds) ==
    LET full == Len(ds) \div 5
        rest == Len(ds) % 5
        Digit(i) == IF i <= Len(ds) THEN ds[i] ELSE 84
        Chunk(g) ==
            Acc85(<<Digit(5 * g - 4), Digit(5 * g - 3), Digit(5 * g - 2),
                    Digit(5 * g - 1), Digit(5 * g)>>, <<0, 0>>)
        groups == [g \in 1..(full + (IF rest = 0 THEN 0 ELSE 1)) |-> Chunk(g)]
        Bytes(v) == <<v[1] \div 256, v[1] % 256, v[2] \div 256, v[2] % 256>>
    IN  IF rest = 1 \/ (\E g \in DOMAIN groups : groups[g][1] >= 65536)
        THEN [ok |-> FALSE, val |-> <<>>]
        ELSE [ok |-> TRUE,
              val |-> [i \in 1..(4 * full + (IF rest = 0 THEN 0 ELSE rest - 1)) |->
                          Bytes(groups[((i - 1) \div 4) + 1])[((i - 1) % 4) + 1]]]

\* base85::decode
B85Decode(cs) ==
    IF \E i \in 1..Len(cs) : cs[i] \notin B85Chars
    THEN [ok |-> FALSE, val |-> <<>>]
    ELSE B85DecodeDigits([i \in 1..Len(cs) |-> B85Digit(cs[i])])

(***************************************************************************)
(* sha2 / txid: a digest of n bytes of a byte string.                      *)
(***************************************************************************)
\* the k-th mix of a byte string: every byte weighted by its position
Mix(bs, k) ==
    SumSeq([i \in 1..Len(bs) |-> (bs[i] + i) * ((((i + k) * 7) % 31) + 1)])

Hash(bs, n) == [k \in 1..n |-> (Mix(bs, k) + 7 * k + Len(bs)) % 256]

(***************************************************************************)
(* ec25519: keys and signatures as byte strings.                           *)
(***************************************************************************)
\* a secret key filled from the random source
SkOf(seed) == [i \in 1..SkLen |-> (seed * 37 + i * 11) % 256]

\* SecretKey::public_key
PublicKeyOf(sk) == [i \in 1..PkLen |-> (sk[i] + 3 * sk[i + PkLen] + 1) % 256]

\* SecretKey::sign(message, noise)
EcSign(sk, msg, noise) ==
    LET pk == PublicKeyOf(sk)
        r  == [i \in 1..PkLen |-> (noise * 13 + i) % 256]
    IN  r \o [i \in 1..PkLen |-> (pk[i] + msg[i] + r[i]) % 256]

\* PublicKey::verify(message, signature).is_ok()
EcVerify(pk, msg, sig) ==
    /\ Len(sig) = SigLen
    /\ Len(msg) = DigestLen
    /\ \A i \in 1..PkLen : sig[PkLen + i] = (pk[i] + msg[i] + sig[i]) % 256

(***************************************************************************)
(* Data model.                                                             *)
(*   Seal       [ledger, txid, vout]      ledger 0 = Bitcoin, 1 = Liquid   *)
(*   Identity   [key, seal]                                                *)
(*   Tx         [nonce, inputs]           inputs: outpoints [txid, vout]   *)
(*   Proof      [ledger, seal_tx, witness_tx, merkle_path]                 *)
(*   Revocation [new_identity, revocation_proof]                           *)
(*   IdCert     [revocations, genesis_id, genesis_sig]                     *)
(*   SigCert    [digest, sig, id]                                          *)
(*   Bindle     [ty, id, data, sigs]      ty: the content type C           *)
(*   Ssi        [sk, cert]                                                 *)
(***************************************************************************)
Outpoint(seal) == [txid |-> seal.txid, vout |-> seal.vout]

(***************************************************************************)
(* strict_encoding: serialization.                                         *)
(***************************************************************************)
SerOutpoint(o) == o.txid \o LE(o.vout, 4)
SerSeal(seal) == <<seal.ledger>> \o seal.txid \o LE(seal.vout, 4)
SerIdentity(identity) == identity.key \o SerSeal(identity.seal)
SerTx(tx) ==
    <<tx.nonce, Len(tx.inputs)>>
        \o Flatten([i \in 1..Len(tx.inputs) |-> SerOutpoint(tx.inputs[i])])
SerProof(proof) ==
    <<proof.ledger>> \o SerTx(proof.seal_tx) \o SerTx(proof.witness_tx)
        \o LE(Len(proof.merkle_path), 4) \o Flatten(proof.merkle_path)
SerRevocation(r) == SerIdentity(r.new_identity) \o SerProof(r.revocation_proof)
SerIdCert(cert) ==
    LE(Len(cert.revocations), 2)
        \o Flatten([i \in 1..Len(cert.revocations) |-> SerRevocation(cert.revocations[i])])
        \o SerIdentity(cert.genesis_id) \o cert.genesis_sig
SerSigCert(sc) == sc.digest \o sc.sig \o SerIdCert(sc.id)
SerContent(ty, data) == IF ty = "sk" THEN data ELSE SerIdCert(data)
SerBindle(b) ==
    b.id \o SerContent(b.ty, b.data) \o <<Len(b.sigs)>>
        \o Flatten([i \in 1..Len(b.sigs) |-> SerSigCert(b.sigs[i])])

\* the txid of a transaction
Txid(tx) == Hash(SerTx(tx), TxidLen)

(***************************************************************************)
(* strict_encoding: decoding.  A decoder returns [ok, val, rest, err]; err  *)
(* names the DecodeError of a failure, which the derived decoders pass on. *)
(***************************************************************************)
\* the reader ran out of bytes: read_exact's io::Error, kept as DecodeError::Io
Fail == [ok |-> FALSE, val |-> <<>>, rest |-> <<>>, err |-> "Io(UnexpectedEof)"]
\* the tag byte of an enum names no variant
UnknownTag == [ok |-> FALSE, val |-> <<>>, rest |-> <<>>, err |-> "UnionTagNotKnown"]
Done(v, rest) == [ok |-> TRUE, val |-> v, rest |-> rest, err |-> ""]

DecBytes(bs, n) == IF Len(bs) < n THEN Fail ELSE Done(Take(bs, n), Drop(bs, n))

\* a length prefix of w bytes; a count the model's inputs cannot hold is an
\* unexpected end of data
DecCount(bs, w) ==
    IF Len(bs) < w \/ (\E i \in 2..w : bs[i] # 0) THEN Fail
    ELSE Done(bs[1], Drop(bs, w))

\* A derived decoder reads its fields in declaration order and stops at the
\* first one that fails; each local operator below receives the fields read so far.
DecOutpoint(bs) ==
    LET Build(t, v) ==
            IF ~v.ok THEN v ELSE Done([txid |-> t.val, vout |-> v.val], v.rest)
        Vout(t) == IF ~t.ok THEN t ELSE Build(t, DecCount(t.rest, 4))
    IN  Vout(DecBytes(bs, TxidLen))

RECURSIVE DecOutpoints(_, _)
DecOutpoints(bs, n) ==
    LET Build(h, t) == IF ~t.ok THEN t ELSE Done(<<h.val>> \o t.val, t.rest)
        More(h) == IF ~h.ok THEN h ELSE Build(h, DecOutpoints(h.rest, n - 1))
    IN  IF n = 0 THEN Done(<<>>, bs) ELSE More(DecOutpoint(bs))

DecSeal(bs) ==
    LET Build(o) ==
            IF ~o.ok THEN o
            ELSE Done([ledger |-> bs[1], txid |-> o.val.txid, vout |-> o.val.vout],
                      o.rest)
    IN  IF bs = <<>> THEN Fail
        ELSE IF bs[1] \notin {0, 1} THEN UnknownTag
        ELSE Build(DecOutpoint(Tail(bs)))

DecIdentity(bs) ==
    LET Build(k, s) ==
            IF ~s.ok THEN s ELSE Done([key |-> k.val, seal |-> s.val], s.rest)
        SealField(k) == IF ~k.ok THEN k ELSE Build(k, DecSeal(k.rest))
    IN  SealField(DecBytes(bs, PkLen))

DecTx(bs) ==
    LET Build(ins) ==
            IF ~ins.ok THEN ins
            ELSE Done([nonce |-> bs[1], inputs |-> ins.val], ins.rest)
    IN  IF Len(bs) < 2 THEN Fail ELSE Build(DecOutpoints(Drop(bs, 2), bs[2]))

RECURSIVE DecHashes(_, _)
DecHashes(bs, n) ==
    LET Build(h, t) == IF ~t.ok THEN t ELSE Done(<<h.val>> \o t.val, t.rest)
        More(h) == IF ~h.ok THEN h ELSE Build(h, DecHashes(h.rest, n - 1))
    IN  IF n = 0 THEN Done(<<>>, bs) ELSE More(DecBytes(bs, DigestLen))

DecProof(bs) ==
    LET Build(st, wt, mp) ==
            IF ~mp.ok THEN mp
            ELSE Done([ledger |-> bs[1], seal_tx |-> st.val, witness_tx |-> wt.val,
                       merkle_path |-> mp.val], mp.rest)
        Path(st, wt, n) ==
            IF ~n.ok THEN n ELSE Build(st, wt, DecHashes(n.rest, n.val))
        PathLen(st, wt) ==
            IF ~wt.ok THEN wt ELSE Path(st, wt, DecCount(wt.rest, 4))
        WitnessTx(st) == IF ~st.ok THEN st ELSE PathLen(st, DecTx(st.rest))
    IN  IF bs = <<>> THEN Fail
        ELSE IF bs[1] \notin {0, 1} THEN UnknownTag
        ELSE WitnessTx(DecTx(Tail(bs)))

DecRevocation(bs) ==
    LET Build(i, p) ==
            IF ~p.ok THEN p
            ELSE Done([new_identity |-> i.val, revocation_proof |-> p.val], p.rest)
        ProofField(i) == IF ~i.ok THEN i ELSE Build(i, DecProof(i.rest))
    IN  ProofField(DecIdentity(bs))

RECURSIVE DecRevocations(_, _)
DecRevocations(bs, n) ==
    LET Build(h, t) == IF ~t.ok THEN t ELSE Done(<<h.val>> \o t.val, t.rest)
        More(h) == IF ~h.ok THEN h ELSE Build(h, DecRevocations(h.rest, n - 1))
    IN  IF n = 0 THEN Done(<<>>, bs) ELSE More(DecRevocation(bs))

DecIdCert(bs) ==
    LET Build(rs, g, s) ==
            IF ~s.ok THEN s
            ELSE Done([revocations |-> rs.val, genesis_id |-> g.val,
                       genesis_sig |-> s.val], s.rest)
        GenesisSig(rs, g) ==
            IF ~g.ok THEN g ELSE Build(rs, g, DecBytes(g.rest, SigLen))
        GenesisId(rs) == IF ~rs.ok THEN rs ELSE GenesisSig(rs, DecIdentity(rs.rest))
        Revocations(n) ==
            IF ~n.ok THEN n ELSE GenesisId(DecRevocations(n.rest, n.val))
    IN  Revocations(DecCount(bs, 2))

DecSigCert(bs) ==
    LET Build(d, s, c) ==
            IF ~c.ok THEN c
            ELSE Done([digest |-> d.val, sig |-> s.val, id |-> c.val], c.rest)
        IdField(d, s) == IF ~s.ok THEN s ELSE Build(d, s, DecIdCert(s.rest))
        SigField(d) == IF ~d.ok THEN d ELSE IdField(d, DecBytes(d.rest, SigLen))
    IN  SigField(DecBytes(bs, DigestLen))

RECURSIVE DecSigCerts(_, _)
DecSigCerts(bs, n) ==
    LET Build(h, t) == IF ~t.ok THEN t ELSE Done(<<h.val>> \o t.val, t.rest)
        More(h) == IF ~h.ok THEN h ELSE Build(h, DecSigCerts(h.rest, n - 1))
    IN  IF n = 0 THEN Done(<<>>, bs) ELSE More(DecSigCert(bs))

DecContent(ty, bs) == IF ty = "sk" THEN DecBytes(bs, SkLen) ELSE DecIdCert(bs)

\* the derived StrictDecode of Bindle: the three fields in order, nothing else
DecBindle(ty, bs) ==
    LET Build(i, d, sg) ==
            IF ~sg.ok THEN sg
            ELSE Done([ty |-> ty, id |-> i.val, data |-> d.val, sigs |-> sg.val],
                      sg.rest)
        Sigs(i, d, n) ==
            IF ~n.ok THEN n ELSE Build(i, d, DecSigCerts(n.rest, n.val))
        SigCount(i, d) == IF ~d.ok THEN d ELSE Sigs(i, d, DecCount(d.rest, 1))
        Data(i) == IF ~i.ok THEN i ELSE SigCount(i, DecContent(ty, i.rest))
    IN  Data(DecBytes(bs, PkLen))

\* StrictDeserialize::from_strict_serialized: the whole input must be consumed
FromStrictSerialized(ty, bs) ==
    LET d == DecContent(ty, bs)
    IN  IF d.ok /\ d.rest = <<>> THEN d ELSE Fail

(***************************************************************************)
(* algo/ristretto25519.rs                                                  *)
(***************************************************************************)
\* Pk::with
PkWith(sk) == PublicKeyOf(sk)

\* Pk::fingerprint
PkFingerprint(pk) == SubSeq(pk, 1, FingerprintLen)

\* ToBaid58::to_baid58_payload
ToBaid58Payload(pk) == <<ID>> \o pk

\* impl From<[u8; 33]> for RistrettoPk: assert_eq!(value[0], Self::ID)
RistrettoPkFrom(value) ==
    IF value[1] # ID THEN [panic |-> TRUE, val |-> <<>>]
    ELSE [panic |-> FALSE, val |-> Tail(value)]

(***************************************************************************)
(* baid58: the id string is <hri>:<payload>#<checksum>; the payload and    *)
(* its checksum are written as lower-case hex digits.                      *)
(***************************************************************************)
HEX_ALPHABET == <<48, 49, 50, 51, 52, 53, 54, 55, 56, 57, 97, 98, 99, 100, 101, 102>>
HexChars == {HEX_ALPHABET[i] : i \in 1..Len(HEX_ALPHABET)}
HexDigit(c) == (CHOOSE i \in 1..Len(HEX_ALPHABET) : HEX_ALPHABET[i] = c) - 1
Hex(bs) ==
    [i \in 1..(2 * Len(bs)) |->
        IF i % 2 = 1 THEN HEX_ALPHABET[(bs[(i + 1) \div 2] \div 16) + 1]
        ELSE HEX_ALPHABET[(bs[i \div 2] % 16) + 1]]
UnHex(cs) ==
    IF Len(cs) % 2 = 1 \/ (\E i \in 1..Len(cs) : cs[i] \notin HexChars)
    THEN [ok |-> FALSE, val |-> <<>>]
    ELSE [ok |-> TRUE,
          val |-> [i \in 1..(Len(cs) \div 2) |->
                      16 * HexDigit(cs[2 * i - 1]) + HexDigit(cs[2 * i])]]

Baid58Checksum(payload) == SumSeq(payload) % 256

\* the text of a payload under the human-readable identifier "ssi"
Baid58String(payload) ==
    HRI \o COLON \o Hex(payload) \o HASH \o Hex(<<Baid58Checksum(payload)>>)

\* RistrettoPk::to_baid58_string (its Display)
ToBaid58String(pk) == Baid58String(ToBaid58Payload(pk))

IndexOf(s, c) ==
    IF \E i \in 1..Len(s) : s[i] = c
    THEN CHOOSE i \in 1..Len(s) : s[i] = c /\ \A j \in 1..(i - 1) : s[j] # c
    ELSE 0

\* RistrettoPk::from_str = from_baid58_chunked_str: [kind, val], kind one of
\* "Ok", "Err" (Baid58ParseError), "Panic" (the assertion of From<[u8; 33]>)
PkFromStr(str) ==
    LET c    == IndexOf(str, COLON[1])
        body == Drop(str, c)
        h    == IndexOf(body, HASH[1])
        pl   == UnHex(Take(body, h - 1))
        ck   == UnHex(Drop(body, h))
        bad  == [kind |-> "Err", val |-> <<>>]
    IN  IF c = 0 \/ Take(str, c - 1) # HRI THEN bad
        ELSE IF h = 0 \/ ~pl.ok \/ ~ck.ok THEN bad
        ELSE IF Len(pl.val) # PkLen + 1 \/ ck.val # <<Baid58Checksum(pl.val)>> THEN bad
        ELSE LET k == RistrettoPkFrom(pl.val)
             IN  IF k.panic THEN [kind |-> "Panic", val |-> <<>>]
                 ELSE [kind |-> "Ok", val |-> k.val]

(***************************************************************************)
(* identity.rs                                                             *)
(***************************************************************************)
\* impl From<Identity<K>> for Digest
DigestOf(identity) == Hash(SerIdentity(identity), DigestLen)

\* a sign() over the digest of the key alone
SkSignKeyOnly(sk, identity, noise) == EcSign(sk, Hash(identity.key, DigestLen), noise)

\* Sk::sign
SkSign(sk, identity, noise) == EcSign(sk, DigestOf(identity), noise)

\* Pk::verify
PkVerify(pk, identity, sig) == EcVerify(pk, DigestOf(identity), sig)

\* IdCert::new
IdCertNew(identity, sig) ==
    [revocations |-> <<>>, genesis_id |-> identity, genesis_sig |-> sig]

\* Ssi::new, with the secret key and the signing noise the random source gives
SsiNew(seal, sk, noise) ==
    LET identity == [key |-> PkWith(sk), seal |-> seal]
        sig      == SkSign(sk, identity, noise)
    IN  [sk |-> sk, cert |-> IdCertNew(identity, sig)]

\* an identity() that takes the first revocation instead of the last
CertIdentityFirst(cert) ==
    IF cert.revocations # <<>>
    THEN cert.revocations[1].new_identity
    ELSE cert.genesis_id

\* IdCert::identity
CertIdentity(cert) ==
    IF cert.revocations # <<>>
    THEN cert.revocations[Len(cert.revocations)].new_identity
    ELSE cert.genesis_id

\* Identity::fingerprint
IdentityFingerprint(identity) == PkFingerprint(identity.key)

\* a fingerprint() taken from the genesis key
CertFingerprintGenesis(cert) == PkFingerprint(cert.genesis_id.key)

\* IdCert::fingerprint
CertFingerprint(cert) == IdentityFingerprint(CertIdentity(cert))

\* Ssi::fingerprint
SsiFingerprint(s) == CertFingerprint(s.cert)

\* BindleContent::bindle_id of RistrettoSk and of IdCert
BindleId(ty, data) == IF ty = "sk" THEN PkWith(data) ELSE CertIdentity(data).key

\* Display of Identity, "ssi:{key}"
IdentityString(identity) == HRI \o COLON \o ToBaid58String(identity.key)

(***************************************************************************)
(* bindle.rs                                                               *)
(***************************************************************************)
\* Bindle::new (also From<C> and BindleContent::bindle)
BindleNew(ty, data) ==
    [ty |-> ty, id |-> BindleId(ty, data), data |-> data, sigs |-> <<>>]

FirstLine(ty) == BEGIN_ \o PLATE_TITLE(ty) \o DASHES
LastLine(ty) == END_ \o PLATE_TITLE(ty) \o DASHES

\* a payload loop that steps over one character after each full line
RECURSIVE WrapLinesSkip(_)
WrapLinesSkip(data) ==
    IF Len(data) >= LineWidth
    THEN Take(data, LineWidth) \o NL \o WrapLinesSkip(Drop(data, LineWidth + 1))
    ELSE data \o NL

\* the payload loop of Display: full lines while at least LineWidth characters
\* are left, then the rest on a line of its own (possibly empty)
RECURSIVE WrapLines(_)
WrapLines(data) ==
    IF Len(data) >= LineWidth
    THEN Take(data, LineWidth) \o NL \o WrapLines(Drop(data, LineWidth))
    ELSE data \o NL

\* the armored layout written by Display, from its header lines and its
\* Base85 payload
ArmorText(ty, headers, payload) ==
    FirstLine(ty) \o NL
        \o Flatten([i \in 1..Len(headers) |-> headers[i] \o NL])
        \o NL
        \o WrapLines(payload)
        \o NL \o LastLine(ty) \o NL

\* header lines with the signers in reverse order of attachment
DisplayHeadersReversed(b) ==
    <<ID_PREFIX \o ToBaid58String(b.id)>>
        \o [i \in 1..Len(b.sigs) |->
               SIGNED_BY \o IdentityString(CertIdentity(b.sigs[Len(b.sigs) + 1 - i].id))]

\* the header lines of Display: Id, then one Signed-By per attached signer
\* (no content type overrides bindle_mnemonic or bindle_headers)
DisplayHeaders(b) ==
    <<ID_PREFIX \o ToBaid58String(b.id)>>
        \o [i \in 1..Len(b.sigs) |-> SIGNED_BY \o IdentityString(CertIdentity(b.sigs[i].id))]

\* impl Display for Bindle: [panic, text]; to_strict_serialized::<U24> fails
\* on more than U24 bytes and the expect("in-memory") panics
BindleDisplay(b) ==
    LET data == SerContent(b.ty, b.data)
    IN  IF Len(data) > U24 THEN [panic |-> TRUE, text |-> <<>>]
        ELSE [panic |-> FALSE, text |-> ArmorText(b.ty, DisplayHeaders(b), B85Encode(data))]

\* str::lines: split at \n, a final empty piece is no line, and the \r of a
\* \r\n ending is dropped
RECURSIVE Lines(_)
Lines(str) ==
    LET i == IndexOf(str, NL[1])
    IN  IF str = <<>> THEN <<>>
        ELSE IF i = 0 THEN <<str>>
        ELSE LET line == Take(str, i - 1)
                 cut  == IF line # <<>> /\ line[Len(line)] = CR[1]
                         THEN Take(line, Len(line) - 1) ELSE line
             IN  <<cut>> \o Lines(Drop(str, i))

\* outcome of from_str and load:
\*   kind "Ok" (bindle = <<b>>), "Err" (err names the variant) or "Panic"
Outcome(kind, err, detail, bindle, actual, expected) ==
    [kind |-> kind, err |-> err, detail |-> detail, bindle |-> bindle,
     actual |-> actual, expected |-> expected]
Err(e, detail) == Outcome("Err", e, detail, None, None, None)
Panic(detail) == Outcome("Panic", "", detail, None, None, None)
Ok(b) == Outcome("Ok", "", "", Some(b), None, None)

\* the header loop of from_str: [kind, header_id, rest]; the loop stops after
\* the first empty line, the last Id header wins
RECURSIVE ScanHeaders(_, _)
ScanHeaders(lines, header_id) ==
    IF lines = <<>> THEN [kind |-> "Ok", header_id |-> header_id, rest |-> <<>>]
    ELSE LET line == Head(lines)
         IN  IF line = <<>>
             THEN [kind |-> "Ok", header_id |-> header_id, rest |-> Tail(lines)]
             ELSE IF HasPrefix(line, ID_PREFIX)
             THEN LET id == PkFromStr(Drop(line, Len(ID_PREFIX)))
                  IN  IF id.kind = "Ok" THEN ScanHeaders(Tail(lines), Some(id.val))
                      ELSE [kind |-> id.kind, header_id |-> None, rest |-> <<>>]
             ELSE ScanHeaders(Tail(lines), header_id)

NonEmpty(line) == line # <<>>

\* an id check that reports the two ids in each other's place
CheckIdSwapped(ty, header_id, data) ==
    LET id == BindleId(ty, data)
    IN  IF header_id # None /\ header_id[1] # id
        THEN Outcome("Err", "MismatchedId", "", None, header_id, Some(id))
        ELSE Ok([ty |-> ty, id |-> id, data |-> data, sigs |-> <<>>])

\* the end of from_str: the id of the decoded content is recomputed and
\* compared with the header's, if there was one; no signature is rebuilt
CheckId(ty, header_id, data) ==
    LET id == BindleId(ty, data)
    IN  IF header_id # None /\ header_id[1] # id
        THEN Outcome("Err", "MismatchedId", "", None, Some(id), header_id)
        ELSE Ok([ty |-> ty, id |-> id, data |-> data, sigs |-> <<>>])

\* a from_str that decodes the structure before it checks the confinement
BindleFromStrDecodeFirst(ty, str) ==
    LET lines == Lines(str)
        n     == Len(lines)
    IN  IF n < 2 \/ lines[1] # FirstLine(ty) \/ lines[n] # LastLine(ty)
        THEN Err("WrongStructure", "")
        ELSE
        LET hdr == ScanHeaders(SubSeq(lines, 2, n - 1), None)
        IN  IF hdr.kind = "Err" THEN Err("InvalidId", "")
            ELSE IF hdr.kind = "Panic" THEN Panic("invalid key type")
            ELSE
            LET armor == Flatten(SelectSeq(hdr.rest, NonEmpty))
                raw   == B85Decode(armor)
            IN  IF ~raw.ok THEN Err("Base85", "")
                ELSE
                LET dec == FromStrictSerialized(ty, raw.val)
                IN  IF ~dec.ok THEN Err("Deserialize", "")
                    ELSE IF Len(raw.val) > U24 THEN Err("TooLarge", "")
                    ELSE CheckId(ty, hdr.header_id, dec.val)

\* impl FromStr for Bindle
BindleFromStr(ty, str) ==
    LET lines == Lines(str)
        n     == Len(lines)
    IN  IF n < 2 \/ lines[1] # FirstLine(ty) \/ lines[n] # LastLine(ty)
        THEN Err("WrongStructure", "")
        ELSE
        LET hdr == ScanHeaders(SubSeq(lines, 2, n - 1), None)
        IN  IF hdr.kind = "Err" THEN Err("InvalidId", "")
            ELSE IF hdr.kind = "Panic" THEN Panic("invalid key type")
            ELSE
            LET armor == Flatten(SelectSeq(hdr.rest, NonEmpty))
                raw   == B85Decode(armor)
            IN  IF ~raw.ok THEN Err("Base85", "")
                ELSE IF Len(raw.val) > U24 THEN Err("TooLarge", "")
                ELSE
                LET dec == FromStrictSerialized(ty, raw.val)
                IN  IF ~dec.ok THEN Err("Deserialize", "")
                    ELSE
                    CheckId(ty, hdr.header_id, dec.val)

\* Bindle::save: the magic, then the strict encoding of the bindle
BindleSave(b) == MAGIC(b.ty) \o SerBindle(b)

\* a load that decodes the body before it looks at the magic
BindleLoadDecodeFirst(ty, file) ==
    IF file = None THEN Err("Decode", "Io(NotFound)")
    ELSE IF Len(file[1]) < MagicLen THEN Err("Decode", "Io(UnexpectedEof)")
    ELSE LET me == DecBindle(ty, Drop(file[1], MagicLen))
         IN  IF ~me.ok THEN Err("Decode", me.err)
             ELSE IF Take(file[1], MagicLen) # MAGIC(ty) THEN Err("InvalidMagic", "")
             ELSE Ok(me.val)

\* Bindle::load; file is None when the path cannot be opened.  The io::Error
\* of File::open and of read_exact is converted into LoadError::Decode, the
\* variant that also carries the DecodeError of the body; detail is the
\* DecodeError inside
BindleLoad(ty, file) ==
    IF file = None THEN Err("Decode", "Io(NotFound)")
    ELSE IF Len(file[1]) < MagicLen THEN Err("Decode", "Io(UnexpectedEof)")
    ELSE IF Take(file[1], MagicLen) # MAGIC(ty) THEN Err("InvalidMagic", "")
    ELSE LET me == DecBindle(ty, Drop(file[1], MagicLen))
         IN  IF ~me.ok THEN Err("Decode", me.err) ELSE Ok(me.val)

(***************************************************************************)
(* Inputs: seals, keys and proofs the callers supply.                      *)
(***************************************************************************)
\* the transaction whose output a seal refers to
FundingTx(n) == [nonce |-> n, inputs |-> <<>>]

\* the seal given on the command line: ledger, txid and vout
SealOf(n) == [ledger |-> n % 2, txid |-> Txid(FundingTx(n)), vout |-> n - 1]

\* a proof whose witness transaction spends the outpoint of the seal
ClosingProof(seal) ==
    LET n == CHOOSE k \in Seeds : SealOf(k) = seal
    IN  [ledger |-> seal.ledger, seal_tx |-> FundingTx(n),
         witness_tx |-> [nonce |-> 100 + n, inputs |-> <<Outpoint(seal)>>],
         merkle_path |-> <<Hash(seal.txid, DigestLen)>>]

\* a proof on the other ledger whose witness transaction spends an outpoint
\* of another transaction, with no inclusion path
UnrelatedProof(seal) ==
    [ledger |-> 1 - seal.ledger, seal_tx |-> FundingTx(200),
     witness_tx |-> [nonce |-> 201,
                     inputs |-> <<[txid |-> Txid(FundingTx(200)), vout |-> 0]>>],
     merkle_path |-> <<>>]

(***************************************************************************)
(* seal.rs: the text form of a seal, <ledger>:<txid>:<vout>.               *)
(***************************************************************************)
BITCOIN_ == <<98, 105, 116, 99, 111, 105, 110, 58>>
LIQUID_ == <<108, 105, 113, 117, 105, 100, 58>>
DIGITS == <<48, 49, 50, 51, 52, 53, 54, 55, 56, 57>>

\* u32 Display and FromStr: decimal digits
RECURSIVE DecString(_)
DecString(n) ==
    IF n < 10 THEN <<DIGITS[n + 1]>>
    ELSE DecString(n \div 10) \o <<DIGITS[(n % 10) + 1]>>

ParseDec(cs) ==
    IF cs = <<>> \/ (\E i \in 1..Len(cs) : cs[i] < 48 \/ cs[i] > 57)
    THEN [ok |-> FALSE, val |-> 0]
    ELSE [ok |-> TRUE,
          val |-> SumSeq([i \in 1..Len(cs) |-> (cs[i] - 48) * (10 ^ (Len(cs) - i))])]

\* Outpoint's Display: <txid>:<vout>
OutpointToString(o) == Hex(o.txid) \o COLON \o DecString(o.vout)

\* Outpoint::from_str: [kind, err, val]; the text is split at its first colon
OutpointFromStr(str) ==
    LET c    == IndexOf(str, COLON[1])
        txid == UnHex(Take(str, c - 1))
        vout == ParseDec(Drop(str, c))
    IN  IF c = 0 THEN [kind |-> "Err", err |-> "MalformedSeparator", val |-> None]
        ELSE IF ~txid.ok \/ Len(txid.val) # TxidLen
        THEN [kind |-> "Err", err |-> "InvalidTxid", val |-> None]
        ELSE IF ~vout.ok THEN [kind |-> "Err", err |-> "InvalidVout", val |-> None]
        ELSE [kind |-> "Ok", err |-> "", val |-> Some([txid |-> txid.val, vout |-> vout.val])]

\* Seal's derived Display: bitcoin:<outpoint> or liquid:<outpoint>
SealToString(seal) ==
    (IF seal.ledger = 0 THEN BITCOIN_ ELSE LIQUID_) \o OutpointToString(Outpoint(seal))

\* .map(Self::Bitcoin) / .map(Self::Liquid) on the result of Outpoint::from_str
MapSeal(r, ledger) ==
    IF r.kind = "Ok"
    THEN [r EXCEPT !.val = Some([ledger |-> ledger, txid |-> r.val[1].txid,
                                 vout |-> r.val[1].vout])]
    ELSE r

\* a from_str that reads every text as a Bitcoin seal
SealFromStrBitcoinOnly(s) ==
    IF HasPrefix(s, BITCOIN_) THEN MapSeal(OutpointFromStr(Drop(s, Len(BITCOIN_))), 0)
    ELSE IF HasPrefix(s, LIQUID_) THEN MapSeal(OutpointFromStr(Drop(s, Len(LIQUID_))), 0)
    ELSE MapSeal(OutpointFromStr(s), 0)

\* impl FromStr for Seal
SealFromStr(s) ==
    IF HasPrefix(s, BITCOIN_) THEN MapSeal(OutpointFromStr(Drop(s, Len(BITCOIN_))), 0)
    ELSE IF HasPrefix(s, LIQUID_) THEN MapSeal(OutpointFromStr(Drop(s, Len(LIQUID_))), 1)
    ELSE MapSeal(OutpointFromStr(s), 0)

\* the seals of the model on either ledger, and the texts given as a seal:
\* seals as displayed, outpoints without a ledger, and a ledger followed by
\* what is no outpoint
AllSeals == {[SealOf(n) EXCEPT !.ledger = l] : n \in Seeds, l \in {0, 1}}

SealTexts ==
    {SealToString(seal) : seal \in AllSeals}
    \cup {OutpointToString(Outpoint(seal)) : seal \in AllSeals}
    \cup {BITCOIN_ \o Hex(seal.txid) : seal \in AllSeals}
    \cup {LIQUID_ \o Hex(seal.txid) \o COLON \o <<120>> : seal \in AllSeals}
    \cup {BITCOIN_ \o Tail(OutpointToString(Outpoint(seal))) : seal \in AllSeals}
    \cup {LIQUID_ \o SealToString(seal) : seal \in AllSeals}

(***************************************************************************)
(* State.                                                                  *)
(*   ssi     Option<Ssi>: the handle made by generation, and its chain     *)
(*   bindle  Option<Bindle>: the bindle made from the handle's content     *)
(*   medium  what lies outside the process: [kind, data, tamper] with kind *)
(*           "none", "text" (an armored string), "file" (a binary file) or *)
(*           "nofile" (the path does not exist); tamper names what a third *)
(*           party changed since the program wrote it ("" if nothing)      *)
(*   result  Option<[op, ty, out]>: the outcome of the last from_str/load  *)
(*   command Option<Seal>: the seal argument of Command::Generate          *)
(***************************************************************************)
VARIABLES ssi, bindle, medium, result, command

vars == <<ssi, bindle, medium, result, command>>

NoMedium == [kind |-> "none", data |-> <<>>, tamper |-> ""]

Init ==
    /\ ssi = None
    /\ bindle = None
    /\ medium = NoMedium
    /\ result = None
    /\ command = None

\* Command::Generate: Ssi::new(seal)
Generate(n, seed, noise) ==
    /\ ssi = None
    /\ result = None
    /\ command' = Some(SealOf(n))
    /\ ssi' = Some(SsiNew(command'[1], SkOf(seed), noise))
    /\ UNCHANGED <<bindle, medium, result>>

\* the holder appends a revocation to the public revocations field; the
\* content is moved out of the handle once a bindle is made of it
Push(revocations, r) == Append(revocations, r)

Revoke(seed, proof) ==
    /\ ssi # None
    /\ bindle = None
    /\ Len(ssi[1].cert.revocations) < MaxRevocations
    /\ LET r == [new_identity |-> [key |-> PkWith(SkOf(seed)), seal |-> SealOf(seed)],
                 revocation_proof |-> proof]
       IN  ssi' = Some([ssi[1] EXCEPT !.cert.revocations = Push(@, r)])
    /\ UNCHANGED <<bindle, medium, result, command>>

RevokeClosing(seed) == Revoke(seed, ClosingProof(CertIdentity(ssi[1].cert).seal))
RevokeUnrelated == Revoke(1, UnrelatedProof(CertIdentity(ssi[1].cert).seal))

\* ssi.sk.bindle() / ssi.cert.bindle()
NewBindle(ty) ==
    /\ ssi # None
    /\ bindle = None
    /\ bindle' = Some(BindleNew(ty, IF ty = "sk" THEN ssi[1].sk ELSE ssi[1].cert))
    /\ UNCHANGED <<ssi, medium, result, command>>

\* the identity at hand was never revoked; the edits of several parts of a
\* text at once are made on the texts of such identities
Fresh == ssi # None /\ ssi[1].cert.revocations = <<>>

\* the SigCert of a signer over the content of a bindle: the signer's own
\* certificate and its signature over the digest of the content
SigCertOf(seed, b) ==
    LET signer == SsiNew(SealOf(seed), SkOf(seed), 1)
        digest == Hash(SerContent(b.ty, b.data), DigestLen)
    IN  [digest |-> digest, sig |-> EcSign(signer.sk, digest, 1), id |-> signer.cert]

\* the signers of a bindle, in the order of attachment
SignerSeqs == UNION {[1..n -> Seeds] : n \in 1..MaxSigs}

\* Bindle::load of the file of this bindle in which signers attached their
\* SigCerts: the only way a Bindle comes to hold signatures
LoadSigned(signers) ==
    /\ bindle # None
    /\ Fresh
    /\ bindle[1].sigs = <<>>
    /\ medium.kind = "none"
    /\ result = None
    /\ LET signed == [bindle[1] EXCEPT
                         !.sigs = [i \in 1..Len(signers) |-> SigCertOf(signers[i], bindle[1])]]
           out    == BindleLoad(signed.ty, Some(BindleSave(signed)))
       IN  out.kind = "Ok" /\ bindle' = out.bindle
    /\ UNCHANGED <<ssi, medium, result, command>>

\* bindle.to_string(), written out
Render ==
    /\ bindle # None
    /\ medium.kind = "none"
    /\ result = None
    /\ LET d == BindleDisplay(bindle[1])
       IN  IF d.panic
           THEN /\ result' = Some([op |-> "to_string", ty |-> bindle[1].ty,
                                   out |-> Panic("in-memory")])
                /\ UNCHANGED medium
           ELSE /\ medium' = [kind |-> "text", data |-> d.text, tamper |-> ""]
                /\ UNCHANGED result
    /\ UNCHANGED <<ssi, bindle, command>>

\* bindle.save(path)
Save ==
    /\ bindle # None
    /\ medium.kind = "none"
    /\ result = None
    /\ medium' = [kind |-> "file", data |-> BindleSave(bindle[1]), tamper |-> ""]
    /\ UNCHANGED <<ssi, bindle, result, command>>

(***************************************************************************)
(* A third party edits the armored text or the file before it is read.     *)
(***************************************************************************)
Payload(b) == B85Encode(SerContent(b.ty, b.data))

\* third-party edits are applied to what was written of a bindle without
\* signers
Unsigned == bindle = None \/ bindle[1].sigs = <<>>

Pristine(kind) ==
    medium.kind = kind /\ medium.tamper = "" /\ result = None /\ Unsigned

\* the text with its Id header line replaced
WithHeaders(headers, label) ==
    /\ Pristine("text")
    /\ medium' = [kind |-> "text", tamper |-> label,
                  data |-> ArmorText(bindle[1].ty, headers, Payload(bindle[1]))]
    /\ UNCHANGED <<ssi, bindle, result, command>>

\* Signed-By header lines a third party may add: one naming an identity, one
\* with no value
ForgedSignedBy ==
    {SIGNED_BY \o IdentityString([key |-> PkWith(SkOf(1)), seal |-> SealOf(1)]), SIGNED_BY}

\* a Signed-By header is added to the text of a bindle, signed or not
TamperSignedBy(line) ==
    /\ bindle # None
    /\ Fresh
    /\ medium.kind = "text"
    /\ medium.tamper = ""
    /\ result = None
    /\ medium' = [kind |-> "text", tamper |-> "signed-by",
                  data |-> ArmorText(bindle[1].ty, DisplayHeaders(bindle[1]) \o <<line>>,
                                     Payload(bindle[1]))]
    /\ UNCHANGED <<ssi, bindle, result, command>>

\* the text with its payload replaced
WithPayload(payload, label) ==
    /\ Pristine("text")
    /\ medium' = [kind |-> "text", tamper |-> label,
                  data |-> ArmorText(bindle[1].ty, DisplayHeaders(bindle[1]), payload)]
    /\ UNCHANGED <<ssi, bindle, result, command>>

\* the Id header names another key, as a valid id string
TamperIdOther(seed) ==
    /\ bindle # None
    /\ PkWith(SkOf(seed)) # bindle[1].id
    /\ WithHeaders(<<ID_PREFIX \o ToBaid58String(PkWith(SkOf(seed)))>>, "id-other")

\* the Id header is a checksum-valid id string with another algorithm tag
TamperIdTag ==
    /\ bindle # None
    /\ WithHeaders(<<ID_PREFIX \o Baid58String(<<ID + 1>> \o bindle[1].id)>>, "id-tag")

\* the Id header has a wrong checksum
TamperIdChecksum ==
    /\ bindle # None
    /\ LET payload == ToBaid58Payload(bindle[1].id)
       IN  WithHeaders(<<ID_PREFIX \o HRI \o COLON \o Hex(payload) \o HASH
                            \o Hex(<<(Baid58Checksum(payload) + 1) % 256>>)>>,
                       "id-checksum")

\* the Id header is removed
TamperNoId == bindle # None /\ WithHeaders(<<>>, "no-id")

\* the certificate's genesis signature is replaced by one made with another key
TamperForgeSig(seed) ==
    /\ bindle # None
    /\ bindle[1].ty = "cert"
    /\ PkWith(SkOf(seed)) # bindle[1].data.genesis_id.key
    /\ LET cert   == bindle[1].data
           forged == [cert EXCEPT !.genesis_sig = SkSign(SkOf(seed), cert.genesis_id, 1)]
       IN  WithPayload(B85Encode(SerIdCert(forged)), "forge-sig")

\* the last five characters of the payload are lost
TamperTruncate ==
    /\ bindle # None
    /\ LET p == Payload(bindle[1]) IN WithPayload(Take(p, Len(p) - 5), "truncated")

\* a character outside the Base85 alphabet stands in the payload
TamperBadChar ==
    /\ bindle # None
    /\ LET p == Payload(bindle[1]) IN WithPayload(SP \o Tail(p), "bad-char")

\* the payload is the Base85 text of more bytes than the confinement allows:
\* the content followed by zero bytes
TamperOversize ==
    /\ bindle # None
    /\ LET data == SerContent(bindle[1].ty, bindle[1].data)
       IN  WithPayload(B85Encode(data \o [i \in 1..(U24 + 1 - Len(data)) |-> 0]),
                       "oversize")

\* an edited Id header together with an edited payload: the header names
\* another key or has a wrong checksum, the payload is cut, holds a character
\* outside the alphabet or is oversized
HeaderEdits ==
    IF bindle = None \/ ~Fresh \/ ~Pristine("text") THEN {}
    ELSE LET payload == ToBaid58Payload(bindle[1].id)
         IN  {<<ID_PREFIX \o ToBaid58String(PkWith(SkOf(seed)))>> :
                 seed \in {k \in Seeds : PkWith(SkOf(k)) # bindle[1].id}}
             \cup {<<ID_PREFIX \o HRI \o COLON \o Hex(payload) \o HASH
                       \o Hex(<<(Baid58Checksum(payload) + 1) % 256>>)>>}

PayloadEdits ==
    IF bindle = None \/ ~Fresh \/ ~Pristine("text") THEN {}
    ELSE LET data == SerContent(bindle[1].ty, bindle[1].data)
             p    == B85Encode(data)
         IN  {Take(p, Len(p) - 5), SP \o Tail(p),
              B85Encode(data \o [i \in 1..(U24 + 1 - Len(data)) |-> 0])}

TamperBoth(headers, payload) ==
    /\ bindle # None
    /\ Pristine("text")
    /\ medium' = [kind |-> "text", tamper |-> "both",
                  data |-> ArmorText(bindle[1].ty, headers, payload)]
    /\ UNCHANGED <<ssi, bindle, result, command>>

\* the marker lines of the text are edited, in the text as written or after
\* its Id header and its payload were both edited
WithText(data, label) ==
    /\ bindle # None
    /\ Fresh
    /\ Unsigned
    /\ medium.kind = "text"
    /\ medium.tamper \in {"", "both"}
    /\ result = None
    /\ medium' = [kind |-> "text", data |-> data, tamper |-> label]
    /\ UNCHANGED <<ssi, bindle, result, command>>

\* a space stands before the BEGIN marker and after the END marker
TamperPadMarkers ==
    WithText(SP \o Take(medium.data, Len(medium.data) - 1) \o SP \o NL, "pad")

\* every line ends with \r\n
TamperCrLf ==
    WithText(Flatten([i \in 1..Len(medium.data) |->
                         IF <<medium.data[i]>> = NL THEN CR \o NL
                         ELSE <<medium.data[i]>>]), "crlf")

\* the END marker line is lost
TamperDropEnd ==
    /\ bindle # None
    /\ WithText(Take(medium.data, Len(medium.data) - Len(LastLine(bindle[1].ty)) - 1),
                "no-end")

\* the text is the BEGIN marker line alone
TamperSingleLine ==
    bindle # None /\ WithText(FirstLine(bindle[1].ty) \o NL, "single-line")

WithFile(kind, data, label) ==
    /\ Pristine("file")
    /\ medium' = [kind |-> kind, data |-> data, tamper |-> label]
    /\ UNCHANGED <<ssi, bindle, result, command>>

\* the first byte of the file is changed
CorruptMagic ==
    WithFile("file", <<(medium.data[1] + 1) % 256>> \o Tail(medium.data), "magic")

\* the file loses its last three bytes
CorruptTruncate ==
    WithFile("file", Take(medium.data, Len(medium.data) - 3), "truncated")

\* the id field of the file is overwritten with another key
CorruptIdSwap(seed) ==
    /\ bindle # None
    /\ PkWith(SkOf(seed)) # bindle[1].id
    /\ WithFile("file", BindleSave([bindle[1] EXCEPT !.id = PkWith(SkOf(seed))]), "id-swap")

\* the ledger tag of the genesis seal is overwritten with a tag of no ledger
CorruptTag ==
    /\ bindle # None
    /\ bindle[1].ty = "cert"
    /\ WithFile("file", BindleSave([bindle[1] EXCEPT !.data.genesis_id.seal.ledger = 2]),
                "tag")

\* the file is cut to less than a magic
CorruptShort == WithFile("file", Take(medium.data, MagicLen - 1), "short")

\* the file is removed
RemoveFile == WithFile("nofile", <<>>, "missing")

(***************************************************************************)
(* Reading back.                                                           *)
(***************************************************************************)
\* Bindle::<C>::from_str(text)
Parse(ty) ==
    /\ medium.kind = "text"
    /\ result = None
    /\ result' = Some([op |-> "from_str", ty |-> ty, out |-> BindleFromStr(ty, medium.data)])
    /\ UNCHANGED <<ssi, bindle, medium, command>>

\* Seal::from_str(text), the seal argument of the command line
ParseSeal(str) ==
    /\ ssi = None
    /\ medium.kind = "none"
    /\ result = None
    /\ medium' = [kind |-> "arg", data |-> str, tamper |-> ""]
    /\ result' = Some([op |-> "seal_from_str", ty |-> "seal", out |-> SealFromStr(str)])
    /\ UNCHANGED <<ssi, bindle, command>>

\* Bindle::<C>::load(path)
Load(ty) ==
    /\ medium.kind \in {"file", "nofile"}
    /\ result = None
    /\ result' = Some([op |-> "load", ty |-> ty,
                       out |-> BindleLoad(ty, IF medium.kind = "file"
                                               THEN Some(medium.data) ELSE None)])
    /\ UNCHANGED <<ssi, bindle, medium, command>>

Next ==
    \/ \E n \in Seeds, seed \in Seeds, noise \in Seeds : Generate(n, seed, noise)
    \/ \E seed \in Seeds : RevokeClosing(seed)
    \/ RevokeUnrelated
    \/ \E ty \in ContentTypes : NewBindle(ty)
    \/ \E signers \in SignerSeqs : LoadSigned(signers)
    \/ Render
    \/ Save
    \/ \E seed \in Seeds : TamperIdOther(seed)
    \/ TamperIdTag
    \/ TamperIdChecksum
    \/ TamperNoId
    \/ \E line \in ForgedSignedBy : TamperSignedBy(line)
    \/ \E seed \in Seeds : TamperForgeSig(seed)
    \/ TamperTruncate
    \/ TamperBadChar
    \/ TamperOversize
    \/ \E h \in HeaderEdits, p \in PayloadEdits : TamperBoth(h, p)
    \/ TamperPadMarkers
    \/ TamperCrLf
    \/ TamperDropEnd
    \/ TamperSingleLine
    \/ CorruptMagic
    \/ CorruptTruncate
    \/ \E seed \in Seeds : CorruptIdSwap(seed)
    \/ CorruptTag
    \/ CorruptShort
    \/ RemoveFile
    \/ \E ty \in ContentTypes : Parse(ty)
    \/ \E ty \in ContentTypes : Load(ty)
    \/ \E str \in SealTexts : ParseSeal(str)

Spec == Init /\ [][Next]_vars

(***************************************************************************)
(* Properties.                                                             *)
(***************************************************************************)
\* the content C the bindle was made of
Content(ty) == IF ty = "sk" THEN ssi[1].sk ELSE ssi[1].cert

\* the last outcome is that of `op`
Returned(op) == result # None /\ result[1].op = op

\* the key of the latest identity of a certificate, read off its fields
CurrentKey(cert) ==
    IF cert.revocations = <<>> THEN cert.genesis_id.key
    ELSE cert.revocations[Len(cert.revocations)].new_identity.key

\* the genesis signature of a certificate verifies under the genesis key
GenesisVerifies(cert) == PkVerify(cert.genesis_id.key, cert.genesis_id, cert.genesis_sig)

\* the proof structurally closes the seal: same ledger, the seal's outpoint is
\* an output of seal_tx and an input of witness_tx
Closes(proof, seal) ==
    /\ proof.ledger = seal.ledger
    /\ Txid(proof.seal_tx) = seal.txid
    /\ \E i \in 1..Len(proof.witness_tx.inputs) : proof.witness_tx.inputs[i] = Outpoint(seal)

\* every revocation's proof closes the seal of the identity it supersedes
ChainCloses(cert) ==
    \A i \in 1..Len(cert.revocations) :
        Closes(cert.revocations[i].revocation_proof,
               IF i = 1 THEN cert.genesis_id.seal
               ELSE cert.revocations[i - 1].new_identity.seal)

\* the text is exactly what Display writes for the bindle of content C
IsRendered(ty) ==
    /\ ssi # None
    /\ medium.kind = "text"
    /\ LET d == BindleDisplay(BindleNew(ty, Content(ty)))
       IN  ~d.panic /\ medium.data = d.text

\* C1: parsing the text that Display writes for C.bindle() succeeds and
\* gives a bindle whose id is C.bindle_id() and whose content is C, byte for
\* byte, whatever the length of the Base85 payload.
C1_RoundTrip ==
    \A ty \in ContentTypes :
        (Returned("from_str") /\ result[1].ty = ty /\ IsRendered(ty))
        => /\ result[1].out.kind = "Ok"
           /\ result[1].out.bindle[1].id = BindleId(ty, Content(ty))
           /\ result[1].out.bindle[1].data = Content(ty)
           /\ SerContent(ty, result[1].out.bindle[1].data) = SerContent(ty, Content(ty))

\* a certificate with a revocation whose payload fills whole lines only was
\* rendered and parsed back
C1_Witness ==
    /\ IsRendered("cert")
    /\ Returned("from_str")
    /\ result[1].ty = "cert"
    /\ result[1].out.kind = "Ok"
    /\ ssi[1].cert.revocations # <<>>
    /\ Len(Payload(bindle[1])) >= LineWidth
    /\ Len(Payload(bindle[1])) % LineWidth = 0

\* C2: every Bindle the program produces (new, from_str, load) stores the id
\* of its content: id = content.bindle_id().
C2_IdIsContentId ==
    /\ bindle # None => bindle[1].id = BindleId(bindle[1].ty, bindle[1].data)
    /\ (result # None /\ result[1].op \in {"from_str", "load"}
          /\ result[1].out.kind = "Ok")
       => LET b == result[1].out.bindle[1] IN b.id = BindleId(b.ty, b.data)

\* the text is the armor of the bindle with its Id header naming key k
IdReplaced(k) ==
    /\ bindle # None
    /\ medium.kind = "text"
    /\ k # bindle[1].id
    /\ HasPrefix(medium.data,
                 FirstLine(bindle[1].ty) \o NL \o ID_PREFIX \o ToBaid58String(k) \o NL)
    /\ medium.data = ArmorText(bindle[1].ty, <<ID_PREFIX \o ToBaid58String(k)>>,
                               Payload(bindle[1]))

\* C3: when the Id header of a valid armor is replaced by the id string of
\* another id, from_str returns MismatchedId with actual = the id recomputed
\* from the content and expected = the id of the header, and no Bindle.
C3_IdTamperDetected ==
    \A seed \in Seeds :
        (Returned("from_str") /\ IdReplaced(PkWith(SkOf(seed)))
            /\ result[1].ty = bindle[1].ty)
        => result[1].out =
               Outcome("Err", "MismatchedId", "", None,
                       Some(BindleId(bindle[1].ty, Content(bindle[1].ty))),
                       Some(PkWith(SkOf(seed))))

\* a text with a replaced Id header was parsed and refused
C3_Witness ==
    \E seed \in Seeds :
        /\ IdReplaced(PkWith(SkOf(seed)))
        /\ Returned("from_str")
        /\ result[1].ty = bindle[1].ty
        /\ result[1].out.err = "MismatchedId"

\* C4: load on a file whose first four bytes are not the magic of the
\* content type returns InvalidMagic whatever the rest is; with the right
\* magic and an undecodable body it returns a decode error, not InvalidMagic.
C4_MagicPrecedence ==
    (Returned("load") /\ medium.kind = "file" /\ Len(medium.data) >= MagicLen)
    => LET ty      == result[1].ty
           magicOk == Take(medium.data, MagicLen) = MAGIC(ty)
           body    == DecBindle(ty, Drop(medium.data, MagicLen))
       IN  /\ ~magicOk => result[1].out = Err("InvalidMagic", "")
           /\ (magicOk /\ ~body.ok)
              => result[1].out.kind = "Err" /\ result[1].out.err = "Decode"
           /\ result[1].out.err = "InvalidMagic" => ~magicOk

\* a file with a wrong magic and a body that does not decode was loaded
C4_Witness ==
    /\ Returned("load")
    /\ medium.kind = "file"
    /\ Len(medium.data) >= MagicLen
    /\ Take(medium.data, MagicLen) # MAGIC(result[1].ty)
    /\ ~DecBindle(result[1].ty, Drop(medium.data, MagicLen)).ok
    /\ result[1].out.err = "InvalidMagic"

\* C5: with no revocation identity() is the genesis identity; each appended
\* revocation becomes the last entry, identity() returns its new_identity,
\* and the genesis identity and the earlier entries stay, unchanged and in
\* order.
C5_ChainMonotonic ==
    /\ [](ssi # None
          => LET cert == ssi[1].cert
                 n    == Len(cert.revocations)
             IN  CertIdentity(cert) = IF n = 0 THEN cert.genesis_id
                                      ELSE cert.revocations[n].new_identity)
    /\ [][(ssi # None /\ ssi' # None /\ ssi' # ssi)
          => LET old == ssi[1].cert
                 new == ssi'[1].cert
                 n   == Len(new.revocations)
             IN  /\ n = Len(old.revocations) + 1
                 /\ SubSeq(new.revocations, 1, n - 1) = old.revocations
                 /\ new.genesis_id = old.genesis_id
                 /\ CertIdentity(new) = new.revocations[n].new_identity]_vars

\* two revocations with different identities were appended
C5_Witness ==
    /\ ssi # None
    /\ Len(ssi[1].cert.revocations) = 2
    /\ ssi[1].cert.revocations[1].new_identity # ssi[1].cert.revocations[2].new_identity
    /\ ssi[1].cert.genesis_id # ssi[1].cert.revocations[2].new_identity
    /\ CertIdentity(ssi[1].cert) = ssi[1].cert.revocations[2].new_identity

\* C6: IdCert::fingerprint, Ssi::fingerprint and the certificate's
\* bindle_id come from the key of the latest identity.
C6_CurrentKeyOnly ==
    /\ ssi # None
       => /\ CertFingerprint(ssi[1].cert) = SubSeq(CurrentKey(ssi[1].cert), 1, FingerprintLen)
          /\ SsiFingerprint(ssi[1]) = SubSeq(CurrentKey(ssi[1].cert), 1, FingerprintLen)
          /\ BindleId("cert", ssi[1].cert) = CurrentKey(ssi[1].cert)
    /\ (bindle # None /\ bindle[1].ty = "cert") => bindle[1].id = CurrentKey(bindle[1].data)

\* a certificate whose key was superseded by another key was made a bindle
C6_Witness ==
    /\ ssi # None
    /\ bindle # None
    /\ bindle[1].ty = "cert"
    /\ ssi[1].cert.revocations # <<>>
    /\ PkFingerprint(ssi[1].cert.genesis_id.key) # CertFingerprint(ssi[1].cert)
    /\ bindle[1].id # ssi[1].cert.genesis_id.key

\* C7: Ssi::new(s) returns a handle with no revocation, genesis_id.seal = s,
\* genesis_id.key = Pk::with(sk) and a genesis_sig that verifies under that
\* key over the digest of genesis_id.
C7_Generation ==
    [][(ssi = None /\ ssi' # None)
       => LET h == ssi'[1]
          IN  /\ h.cert.revocations = <<>>
              /\ command' # None
              /\ h.cert.genesis_id.seal = command'[1]
              /\ h.cert.genesis_id.key = PkWith(h.sk)
              /\ GenesisVerifies(h.cert)]_vars

\* a handle was generated on a Liquid seal
C7_Witness ==
    /\ ssi # None
    /\ command # None
    /\ ssi[1].cert.revocations = <<>>
    /\ ssi[1].cert.genesis_id.seal = command[1]
    /\ command[1].ledger = 1
    /\ GenesisVerifies(ssi[1].cert)

\* C8: every IdCert handed to a caller, by Ssi::new or by from_str / load,
\* has a genesis_sig that verifies against genesis_id.key.
C8_GenesisSigVerifies ==
    /\ ssi # None => GenesisVerifies(ssi[1].cert)
    /\ (result # None /\ result[1].out.kind = "Ok" /\ result[1].ty = "cert")
       => GenesisVerifies(result[1].out.bindle[1].data)

\* C9: in every IdCert accepted from text or binary input each revocation's
\* proof closes the seal of the identity it supersedes.
C9_ProofsCloseSeals ==
    (result # None /\ result[1].out.kind = "Ok" /\ result[1].ty = "cert")
    => ChainCloses(result[1].out.bindle[1].data)

\* C10: from_str returns Ok or a BindleParseError on every input; an Id
\* header with another algorithm tag gives InvalidId.
C10_NoPanic ==
    Returned("from_str")
    => /\ result[1].out.kind \in {"Ok", "Err"}
       /\ (bindle # None /\ result[1].ty = bindle[1].ty
             /\ medium.data = ArmorText(bindle[1].ty,
                    <<ID_PREFIX \o Baid58String(<<ID + 1>> \o bindle[1].id)>>,
                    Payload(bindle[1])))
          => result[1].out.err = "InvalidId"

\* the file of the load is missing or too short to hold a magic
FileSystemFailure == medium.kind = "nofile" \/ Len(medium.data) < MagicLen

\* the file of the load has the magic of the type and a body that does not decode
BodyFailure(ty) ==
    /\ medium.kind = "file"
    /\ Len(medium.data) >= MagicLen
    /\ Take(medium.data, MagicLen) = MAGIC(ty)
    /\ ~DecBindle(ty, Drop(medium.data, MagicLen)).ok

\* C11: load reports a file-system failure (file missing or shorter than a
\* magic) as an error value that differs from InvalidMagic and from every
\* value it reports for a body that fails to decode, and the other way round.
C11_LoadKindsDistinct ==
    Returned("load") =>
        LET out == result[1].out
            ty  == result[1].ty
        IN  /\ FileSystemFailure => out.kind = "Err" /\ out.err # "InvalidMagic"
            /\ BodyFailure(ty) =>
                   /\ out.kind = "Err" /\ out.err # "InvalidMagic"
                   /\ out # BindleLoad(ty, None)
                   /\ out # BindleLoad(ty, Some(<<>>))

\* a line without its leading and trailing white space
WhiteSpace == {32, 9, 13}
Trim(line) ==
    LET keep == {i \in 1..Len(line) : line[i] \notin WhiteSpace}
    IN  IF keep = {} THEN <<>>
        ELSE SubSeq(line, CHOOSE i \in keep : \A j \in keep : i <= j,
                          CHOOSE i \in keep : \A j \in keep : i >= j)

\* the first and last lines of a text are, once trimmed, the markers of ty
TrimmedMarkers(ty, str) ==
    LET lines == Lines(str)
    IN  /\ Len(lines) >= 2
        /\ Trim(lines[1]) = FirstLine(ty)
        /\ Trim(lines[Len(lines)]) = LastLine(ty)

\* C12: from_str returns WrongStructure if and only if the first and last
\* trimmed lines of the text are not the BEGIN and END markers of the content
\* type's title; white space around the markers does not make it fail.
C12_MarkersDecide ==
    Returned("from_str") =>
        ((result[1].out.kind = "Err" /\ result[1].out.err = "WrongStructure")
            <=> ~TrimmedMarkers(result[1].ty, medium.data))

\* the lines between the first and the last line
Inner(lines) == SubSeq(lines, 2, Len(lines) - 1)

\* the number of header lines: the inner lines before the first empty one
HeaderCount(inner) ==
    LET empty == {i \in 1..Len(inner) : inner[i] = <<>>}
    IN  IF empty = {} THEN Len(inner)
        ELSE (CHOOSE i \in empty : \A j \in empty : i <= j) - 1

\* the values of the Id headers, in order
IdHeaders(inner) ==
    LET IsId(line) == HasPrefix(line, ID_PREFIX)
        ids == SelectSeq(SubSeq(inner, 1, HeaderCount(inner)), IsId)
    IN  [i \in 1..Len(ids) |-> Drop(ids[i], Len(ID_PREFIX))]

\* the payload characters: the non-empty lines after the headers and the
\* empty line that ends them
PayloadOf(inner) ==
    Flatten(SelectSeq(SubSeq(inner, HeaderCount(inner) + 2, Len(inner)), NonEmpty))

\* the first check of the fixed order that a text fails for type ty, "" if
\* it passes them all
FirstFailing(ty, str) ==
    LET lines == Lines(str)
        inner == Inner(lines)
        ids   == IdHeaders(inner)
        raw   == B85Decode(PayloadOf(inner))
        dec   == FromStrictSerialized(ty, raw.val)
    IN  IF Len(lines) < 2 \/ lines[1] # FirstLine(ty)
            \/ lines[Len(lines)] # LastLine(ty)
        THEN "WrongStructure"
        ELSE IF \E i \in 1..Len(ids) : PkFromStr(ids[i]).kind # "Ok" THEN "InvalidId"
        ELSE IF ~raw.ok THEN "Base85"
        ELSE IF Len(raw.val) > U24 THEN "TooLarge"
        ELSE IF ~dec.ok THEN "Deserialize"
        ELSE IF ids # <<>> /\ PkFromStr(ids[Len(ids)]).val # BindleId(ty, dec.val)
        THEN "MismatchedId"
        ELSE ""

\* C13: the error of from_str is the one of the first check that fails, in
\* the order markers, Id header, Base85, size confinement, structural decode,
\* id comparison; from_str succeeds only when none fails, and it ends
\* without a result only at the Id header.
C13_CheckOrder ==
    Returned("from_str") =>
        LET out   == result[1].out
            first == FirstFailing(result[1].ty, medium.data)
        IN  /\ out.kind = "Err" => out.err = first
            /\ out.kind = "Ok" => first = ""
            /\ out.kind = "Panic" => first = "InvalidId"

\* an oversized payload that would not decode either was refused as TooLarge
C13_Witness ==
    /\ Returned("from_str")
    /\ result[1].out.kind = "Err"
    /\ result[1].out.err = "TooLarge"
    /\ LET raw == B85Decode(PayloadOf(Inner(Lines(medium.data))))
       IN  raw.ok /\ ~FromStrictSerialized(result[1].ty, raw.val).ok

\* C14: Seal::from_str reads bitcoin:<outpoint> and liquid:<outpoint> as the
\* seal of that ledger and a bare <outpoint> as a Bitcoin seal, returns an
\* error for a ledger prefix followed by what is no outpoint, and gives back
\* every seal from its displayed text.
C14_SealText ==
    Returned("seal_from_str") =>
        LET str == medium.data
            out == result[1].out
        IN  /\ \A seal \in AllSeals :
                   LET o == OutpointToString(Outpoint(seal))
                   IN  /\ str = BITCOIN_ \o o
                          => out.kind = "Ok" /\ out.val = Some([seal EXCEPT !.ledger = 0])
                       /\ str = LIQUID_ \o o
                          => out.kind = "Ok" /\ out.val = Some([seal EXCEPT !.ledger = 1])
                       /\ str = o
                          => out.kind = "Ok" /\ out.val = Some([seal EXCEPT !.ledger = 0])
                       /\ str = SealToString(seal)
                          => out.kind = "Ok" /\ out.val = Some(seal)
            /\ (HasPrefix(str, BITCOIN_)
                    /\ OutpointFromStr(Drop(str, Len(BITCOIN_))).kind = "Err")
               => out.kind = "Err"
            /\ (HasPrefix(str, LIQUID_)
                    /\ OutpointFromStr(Drop(str, Len(LIQUID_))).kind = "Err")
               => out.kind = "Err"

\* the displayed text of a Liquid seal was parsed back to the same seal
C14_Witness ==
    /\ Returned("seal_from_str")
    /\ result[1].out.kind = "Ok"
    /\ result[1].out.val[1].ledger = 1
    /\ medium.data = SealToString(result[1].out.val[1])

\* the Signed-By header lines of a text, in order
SignedByLines(str) ==
    LET inner == Inner(Lines(str))
        IsSignedBy(line) == HasPrefix(line, SIGNED_BY)
    IN  SelectSeq(SubSeq(inner, 1, HeaderCount(inner)), IsSignedBy)

\* from_str gave a bindle with the id and the content of the bindle in
\* memory and with no signature
ParsedUnsigned ==
    /\ result[1].out.kind = "Ok"
    /\ result[1].out.bindle[1].id = bindle[1].id
    /\ result[1].out.bindle[1].data = bindle[1].data
    /\ result[1].out.bindle[1].sigs = <<>>

\* C15: the text rendered of a bindle with n >= 1 attached SigCerts has one
\* Signed-By header per signer, naming the signer's identity, in the order of
\* attachment; from_str of that text, and of a text with further Signed-By
\* headers, returns the same id and content with an empty signature list.
C15_SigsNotRebuilt ==
    (bindle # None /\ medium.kind = "text")
    => /\ (bindle[1].sigs # <<>> /\ medium.tamper = "")
          => SignedByLines(medium.data)
               = [i \in 1..Len(bindle[1].sigs) |->
                    SIGNED_BY \o HRI \o COLON
                        \o ToBaid58String(CertIdentity(bindle[1].sigs[i].id).key)]
       /\ (Returned("from_str") /\ result[1].ty = bindle[1].ty
              /\ (medium.tamper = "signed-by"
                    \/ (medium.tamper = "" /\ bindle[1].sigs # <<>>)))
          => ParsedUnsigned

\* a bindle signed by two different signers was rendered and parsed back
C15_Witness ==
    /\ bindle # None
    /\ Len(bindle[1].sigs) >= 2
    /\ bindle[1].sigs[1] # bindle[1].sigs[2]
    /\ medium.kind = "text"
    /\ medium.tamper = ""
    /\ Len(SignedByLines(medium.data)) = Len(bindle[1].sigs)
    /\ Returned("from_str")
    /\ ParsedUnsigned

====
